---- MODULE Spec2Model ----
(***************************************************************************)
(* overcast-sonos: the episode cache of overcast.py (Overcast) and the     *)
(* SMAPI request handlers of overcast-sonos.py that use it.                *)
(*                                                                         *)
(* An episode is a record; "None" (an absent episode) is the empty         *)
(* sequence and a present episode e is <<e>>.  Episode ids are numbers     *)
(* standing for the '+xyz' path of the episode page.  Offsets are kept in  *)
(* milliseconds everywhere: the seconds value offsetMillis/1000 that the   *)
(* handlers pass on is a float in the code, so comparisons against it are  *)
(* made on the millisecond scale.                                          *)
(***************************************************************************)
EXTENDS Integers, Sequences, FiniteSets, TLC

\* overcast.py:17
EPISODE_CACHE_SIZE == 5

\* overcast.py:182, the tolerance of the "finished" test
DELETE_MARGIN_SECONDS == 60

\* overcast.py:65, the duration forced for the known show
OVERRIDE_DURATION == 3600

\* the value of an undetermined duration / a missing offset argument
UNKNOWN == -1

\* get_episode_time_remaining_seconds returning None (no cell on the podcast page)
NONE_REMAINING == -2

----------------------------------------------------------------------------
(* Bounds of the model *)

\* episodes that exist on the remote site at start
NumEpisodes == 6

EpisodeIds == 1..NumEpisodes

\* the ids the control point asks for: the episodes, and 0, an id whose page
\* is the site's fallback page (no audio player)
RequestIds == 0..NumEpisodes

\* the episodes the control point plays (reports progress for): episode 1,
\* whose duration cannot be determined, and episode 2, of 1800 seconds
PlayedIds == {1, 2}

\* offsetMillis values the control point reports: 1700 s, 1740 s (60 s before
\* the end of episode 2) and 1750 s
Offsets == {1700000, 1740000, 1750000}

\* cells ('a.feedcell') of the podcasts page, at most
MaxPodcasts == 3

\* cells ('a.extendedepisodecell') of a podcast's page, at most
MaxEpisodeCells == 4

\* podcast titles, as their rank in the order of str
Titles == {1, 2}

\* the index and count arguments the control point pages with
Indexes == {0, 1}
Counts == {1, 2}

\* the connections that carry a progress report each
Connections == {1, 2}

\* the hour and minute quantities a remaining-time text shows; -1: it shows none
Quantities == {-1, 0, 1, 2}

\* data-start-time values of an episode page
ElapsedSeconds == {0, 60, 3600}

----------------------------------------------------------------------------
(* The remote site: what the episode page and the podcast page show *)

\* text of 'div.centertext h2' of the episode page
PageTitle(id) ==
    IF id = 3 THEN "Scorchin' Radio 101" ELSE "Episode"

\* the remaining time get_episode_time_remaining_seconds finds on the podcast
\* page: episodes 1 and 3 have no cell there (None); the others show what is
\* left of their length, 1800 s for episode 2 and 3600 s for the rest
PageRemaining(id, elapsed) ==
    LET total == IF id = 2 THEN 1800 ELSE 3600
    IN  IF id \in {1, 3} THEN NONE_REMAINING
        ELSE IF elapsed >= total THEN 0
        ELSE total - elapsed

VARIABLES
    started,        \* TRUE once Overcast(...) was constructed without a login alert
    episode_cache,  \* Overcast.episode_cache: sequence of episodes, front = oldest
    remote,         \* per episode: [present, start]: page has the audio player; data-start-time
    call,           \* the last request's arguments: [id, offsetMillis]
    episode,        \* what get_episode_detail returned to the last request
    fetched,        \* whether the last request fetched the episode page
    writes,         \* the remote writes (POSTs) of the last request, in order
    outcome,        \* "ok", or "error" when the last request raised
    resident,       \* history: the record cached under call.id when the request arrived
    recency,        \* history: ids of the cached episodes, oldest successful access first
    reported,       \* history: per played episode, the offset last reported and stored remotely
    logins,         \* history: the number of POSTs to /login so far
    site,           \* the listing pages: [podcasts, episodes], sequences of cells
    listing,        \* the last getMetadata request, its response and the sequence it paged
    page,           \* an episode page and its cell on the podcast page: [title, elapsed, cell]
    computed,       \* the duration get_episode_detail computed for page; << >> before
    pc,             \* per connection: where its handler stands in get_episode_detail
    job,            \* per connection: the progress report it carries, [id, offsetMillis]
    local,          \* per connection: the handler's local variable episode
    accepted        \* history: the connections in the order the server took them up

\* the state the episode handlers work on
serviceVars == <<started, episode_cache, remote, call, episode, fetched, writes, outcome,
                 resident, recency, reported, logins>>

\* the state getMetadata works on
browseVars == <<site, listing>>

\* the state the duration computation works on
durationVars == <<page, computed>>

\* the state of the connections the server handles step by step
serialVars == <<pc, job, local, accepted>>

vars == <<serviceVars, browseVars, durationVars, serialVars>>

----------------------------------------------------------------------------
(* The OrderedDict *)

\* episode_id in self.episode_cache
InCache(c, id) ==
    \E i \in 1..Len(c) : c[i].id = id

\* the value stored under key id
CacheGet(c, id) ==
    c[CHOOSE i \in 1..Len(c) : c[i].id = id]

\* self.episode_cache.pop(episode_id): the mapping without the key
CachePop(c, id) ==
    SelectSeq(c, LAMBDA e : e.id # id)

\* self.episode_cache[episode_id] = episode, for a key that is not present
CacheSet(c, e) ==
    Append(c, e)

\* self.episode_cache[episode_id] = episode: a key that is present keeps its
\* place and takes the value, a new key goes to the end
CacheAssign(c, e) ==
    IF InCache(c, e.id)
    THEN [i \in 1..Len(c) |-> IF c[i].id = e.id THEN e ELSE c[i]]
    ELSE CacheSet(c, e)

\* mutant of Purge: the test is >= EPISODE_CACHE_SIZE + 2, one entry too many stays
RECURSIVE PurgeLate(_)
PurgeLate(c) ==
    IF Len(c) > EPISODE_CACHE_SIZE + 1 THEN PurgeLate(Tail(c)) ELSE c

\* mutant of Purge: the entry behind the oldest is the one removed
RECURSIVE PurgeSecond(_)
PurgeSecond(c) ==
    IF Len(c) > EPISODE_CACHE_SIZE
    THEN PurgeSecond(<< Head(c) >> \o Tail(Tail(c)))
    ELSE c

\* while len(self.episode_cache) > EPISODE_CACHE_SIZE: popitem(last=False)
RECURSIVE Purge(_)
Purge(c) ==
    IF Len(c) > EPISODE_CACHE_SIZE THEN Purge(Tail(c)) ELSE c

----------------------------------------------------------------------------
(* get_episode_detail *)

\* the podcast page has no cell for the episode
NoCell == << >>

\* the remaining-time text of a cell, by the quantities it shows ("1 hr 2 min
\* left" is [hours |-> 1, minutes |-> 2], "left" alone shows none)
CellTexts == [hours : Quantities, minutes : Quantities]

\* utilities.duration_in_seconds: the hours and minutes found, in seconds;
\* unknown when the text shows no quantity
DurationInSeconds(text) ==
    IF text.hours = -1 /\ text.minutes = -1 THEN UNKNOWN
    ELSE (IF text.hours = -1 THEN 0 ELSE text.hours * 3600)
            + (IF text.minutes = -1 THEN 0 ELSE text.minutes * 60)

\* get_episode_time_remaining_seconds, lines 95-110: None without a cell
TimeRemaining(cell) ==
    IF cell = NoCell THEN NONE_REMAINING ELSE DurationInSeconds(cell[1])

\* "Scorchin' Radio" in title
IsOverriddenTitle(title) ==
    title = "Scorchin' Radio 101"

\* lines 57-67: the duration from elapsed and remaining time
ComputeDuration(title, elapsed, remaining) ==
    IF remaining # 0 /\ remaining # NONE_REMAINING /\ remaining # UNKNOWN
    THEN IF elapsed = elapsed + remaining THEN UNKNOWN ELSE elapsed + remaining
    ELSE IF IsOverriddenTitle(title) THEN OVERRIDE_DURATION ELSE UNKNOWN

\* lines 70-82: the record built from the episode page; the fields that are
\* only copied from the page to the responses (podcast_title, albumArtURI,
\* parsed_audio_uri, audio_type, data_sync_version) are left out
ParseEpisode(id, rem) ==
    [ id                 |-> id,
      title              |-> PageTitle(id),
      offsetMillis       |-> rem[id].start * 1000,
      duration           |-> ComputeDuration(PageTitle(id), rem[id].start,
                                             PageRemaining(id, rem[id].start)),
      data_item_id       |-> id,
      delete_episode_uri |-> id ]

\* mutant of CacheLookup: a record of known duration is kept when no offset is given
CacheLookupKeepsWithoutOffset(c, id, updated_offset_millis) ==
    IF ~InCache(c, id) THEN << >>
    ELSE IF CacheGet(c, id).duration = -1 THEN << >>
    ELSE IF updated_offset_millis > -1
         THEN << [CacheGet(c, id) EXCEPT !.offsetMillis = updated_offset_millis] >>
         ELSE << CacheGet(c, id) >>

\* mutant of CacheLookup: the offset is not written into the cached record
CacheLookupNoPatch(c, id, updated_offset_millis) ==
    IF ~InCache(c, id) THEN << >>
    ELSE IF updated_offset_millis = -1 \/ CacheGet(c, id).duration = -1 THEN << >>
    ELSE << CacheGet(c, id) >>

\* mutant of CacheLookup: the offset is patched whatever the cached duration
CacheLookupPatchesUnknown(c, id, updated_offset_millis) ==
    IF ~InCache(c, id) THEN << >>
    ELSE IF updated_offset_millis = -1 THEN << >>
    ELSE << [CacheGet(c, id) EXCEPT !.offsetMillis = updated_offset_millis] >>

\* lines 36-45: the cached record after the validity test; <<>> when invalidated
CacheLookup(c, id, updated_offset_millis) ==
    IF ~InCache(c, id) THEN << >>
    ELSE IF updated_offset_millis = -1 \/ CacheGet(c, id).duration = -1 THEN << >>
    ELSE IF updated_offset_millis > -1
         THEN << [CacheGet(c, id) EXCEPT !.offsetMillis = updated_offset_millis] >>
         ELSE << CacheGet(c, id) >>

\* mutant of FetchEpisode: a record is built whether or not the page has the player
FetchEpisodeAlways(id, rem) ==
    << ParseEpisode(id, rem) >>

\* lines 47-82: the page fetch; <<>> when the page has no audio#audioplayer
FetchEpisode(id, rem) ==
    IF rem[id].present THEN << ParseEpisode(id, rem) >> ELSE << >>

\* mutant of CacheStore: without an episode the cache is left as it was found
CacheStoreKeepsAbsent(c, id, ep) ==
    IF ep # << >> THEN Purge(CacheSet(CachePop(c, id), ep[1])) ELSE c

\* mutant of CacheStore: a key that is present keeps its place (no pop)
CacheStoreInPlace(c, id, ep) ==
    IF ep = << >> THEN CachePop(c, id)
    ELSE IF InCache(c, id)
         THEN [i \in 1..Len(c) |-> IF c[i].id = id THEN ep[1] ELSE c[i]]
         ELSE Purge(CacheSet(c, ep[1]))

\* lines 84-91: insert at the end and purge
CacheStore(c, id, ep) ==
    IF ep # << >> THEN Purge(CacheSet(CachePop(c, id), ep[1])) ELSE CachePop(c, id)

\* get_episode_detail: [episode, fetched, cache]
GetEpisodeDetail(c, rem, id, updated_offset_millis) ==
    LET cached == CacheLookup(c, id, updated_offset_millis)
        miss   == cached = << >>
        ep     == IF miss THEN FetchEpisode(id, rem) ELSE cached
    IN  [ episode |-> ep,
          fetched |-> miss,
          cache   |-> CacheStore(c, id, ep) ]

----------------------------------------------------------------------------
(* get_all_podcasts / get_all_podcast_episodes / getMetadata *)

\* a cell of the podcasts page: title, whether it holds 'svg.unplayed_indicator',
\* whether the anchor has an href
PodcastCell == [title : Titles, unplayed : BOOLEAN, href : BOOLEAN]

\* a cell of a podcast's page: whether its class has 'usernewepisode', whether
\* the anchor has an href
EpisodeCell == [unplayed : BOOLEAN, href : BOOLEAN]

PodcastPages == UNION {[1..n -> PodcastCell] : n \in 0..MaxPodcasts}

EpisodePages == UNION {[1..n -> EpisodeCell] : n \in 0..MaxEpisodeCells}

\* the page [A (played), B (unplayed), C (unplayed), D (played)]
ExampleEpisodes ==
    << [unplayed |-> FALSE, href |-> TRUE], [unplayed |-> TRUE, href |-> TRUE],
       [unplayed |-> TRUE, href |-> TRUE], [unplayed |-> FALSE, href |-> TRUE] >>

\* a page with two unplayed podcasts and a played one
ExamplePodcasts ==
    << [title |-> 2, unplayed |-> TRUE, href |-> TRUE],
       [title |-> 1, unplayed |-> FALSE, href |-> TRUE],
       [title |-> 1, unplayed |-> TRUE, href |-> TRUE] >>

\* the href of the i-th cell of a page stands for its position i
CellId(i) == i

\* list.sort(key=title) step: x goes behind the items whose title is not greater
InsertByTitle(sorted, x) ==
    LET k == Cardinality({i \in 1..Len(sorted) : sorted[i].title <= x.title})
    IN  SubSeq(sorted, 1, k) \o << x >> \o SubSeq(sorted, k + 1, Len(sorted))

\* podcasts.sort(key=lambda item: item.get("title")), a stable sort
RECURSIVE SortByTitle(_)
SortByTitle(items) ==
    IF items = << >> THEN << >>
    ELSE InsertByTitle(SortByTitle(SubSeq(items, 1, Len(items) - 1)), items[Len(items)])

\* overcast.py:115-120, the cells get_all_podcasts keeps, in page order
PodcastsKept(cells, unplayed_only) ==
    LET keep(i) == /\ cells[i].href
                   /\ (~unplayed_only \/ (unplayed_only /\ cells[i].unplayed))
        idx == SelectSeq([i \in 1..Len(cells) |-> i], keep)
    IN  [k \in 1..Len(idx) |-> [id |-> CellId(idx[k]), title |-> cells[idx[k]].title]]

\* mutant of GetAllPodcasts: the result is left in page order
GetAllPodcastsUnsorted(cells, unplayed_only) ==
    PodcastsKept(cells, unplayed_only)

\* get_all_podcasts
GetAllPodcasts(cells, unplayed_only) ==
    SortByTitle(PodcastsKept(cells, unplayed_only))

\* overcast.py:144-171, the loop over the cells from the i-th on
RECURSIVE EpisodesFrom(_, _, _, _)
EpisodesFrom(cells, i, unplayed_only, episodes) ==
    IF i > Len(cells) THEN episodes
    ELSE LET episode_prefix == IF cells[i].unplayed THEN "* " ELSE ""
             ep == [id |-> CellId(i), title |-> << episode_prefix, "title" >>]
         IN  IF cells[i].href /\ (~unplayed_only \/ (unplayed_only /\ episode_prefix # ""))
             THEN EpisodesFrom(cells, i + 1, unplayed_only,
                               IF unplayed_only THEN << ep >> \o episodes
                                                ELSE Append(episodes, ep))
             ELSE EpisodesFrom(cells, i + 1, unplayed_only, episodes)

\* mutant of GetAllPodcastEpisodes: the unplayed episodes are appended too
GetAllPodcastEpisodesAppended(cells, unplayed_only) ==
    SelectSeq(EpisodesFrom(cells, 1, FALSE, << >>),
              LAMBDA e : ~unplayed_only \/ e.title[1] # "")

\* get_all_podcast_episodes
GetAllPodcastEpisodes(cells, unplayed_only) ==
    EpisodesFrom(cells, 1, unplayed_only, << >>)

\* the ids getMetadata is asked for; "search" is one it does not know
MetadataIds ==
    {"root", "all_podcasts", "unplayed_podcasts", "podcast/1", "podcast_unplayed/1", "search"}

\* id.startswith(PODCAST_ID_PREFIX)
IsPodcastId(id) == id \in {"podcast/1", "podcast_unplayed/1"}

\* id_prefix == UNPLAYED_PODCAST_ID_PREFIX after id.split('/', 1)
IsUnplayedPodcastId(id) == id = "podcast_unplayed/1"

\* s[index:index + count] for index >= 0 and count >= 0
Slice(s, index, count) ==
    SubSeq(s, index + 1, IF index + count < Len(s) THEN index + count ELSE Len(s))

\* the two collections the root view puts before the podcasts
RootCollections == << [id |-> "all_podcasts"], [id |-> "unplayed_podcasts"] >>

\* the response: its header and the items appended after it; all is the
\* sequence the Overcast method returned
MetadataResponse(id, index, count, header, items, all) ==
    [ id |-> id, index |-> index, count |-> count,
      header |-> header, items |-> items, all |-> all ]

\* the body of getMetadata: the response for the listing pages s
GetMetadata(s, id, index, count) ==
    IF id = "root"
    THEN LET all_unplayed_podcasts == GetAllPodcasts(s.podcasts, TRUE)
             podcasts == Slice(all_unplayed_podcasts, index, count)
         IN  MetadataResponse(id, index, count,
                 [index |-> index, count |-> Len(podcasts) + 2,
                  total |-> Len(all_unplayed_podcasts) + 2],
                 RootCollections \o podcasts, all_unplayed_podcasts)
    ELSE IF id = "all_podcasts" \/ id = "unplayed_podcasts"
    THEN LET all_podcasts == GetAllPodcasts(s.podcasts, id = "unplayed_podcasts")
             podcasts == Slice(all_podcasts, index, count)
         IN  MetadataResponse(id, index, count,
                 [index |-> index, count |-> Len(podcasts), total |-> Len(all_podcasts)],
                 podcasts, all_podcasts)
    ELSE IF IsPodcastId(id)
    THEN LET all_episodes == GetAllPodcastEpisodes(s.episodes, IsUnplayedPodcastId(id))
             episodes == Slice(all_episodes, index, count)
         IN  MetadataResponse(id, index, count,
                 [index |-> index, count |-> Len(episodes), total |-> Len(all_episodes)],
                 episodes, all_episodes)
    ELSE MetadataResponse(id, index, count,
             [index |-> 0, count |-> 0, total |-> 0], << >>, << >>)

----------------------------------------------------------------------------
(* update_episode_offset / delete_episode *)

\* mutant of ShouldDelete: > in place of >=
ShouldDeleteStrict(ep, offsetMillis) ==
    offsetMillis > (ep.duration - DELETE_MARGIN_SECONDS) * 1000

\* line 182: updated_offset_seconds >= episode['duration'] - 60, in milliseconds
ShouldDelete(ep, offsetMillis) ==
    offsetMillis >= (ep.duration - DELETE_MARGIN_SECONDS) * 1000

\* lines 176-179: the set_progress POST
ProgressWrite(ep, offsetMillis) ==
    << "set_progress", ep.data_item_id, offsetMillis >>

\* lines 186-188: the delete POST
DeleteWrite(ep) ==
    << "delete", ep.delete_episode_uri >>

\* mutant of UpdateEpisodeOffset: the delete is posted before the progress
UpdateEpisodeOffsetDeleteFirst(ep, offsetMillis) ==
    IF ShouldDelete(ep, offsetMillis)
    THEN << DeleteWrite(ep), ProgressWrite(ep, offsetMillis) >>
    ELSE << ProgressWrite(ep, offsetMillis) >>

\* the POSTs of update_episode_offset, in order
UpdateEpisodeOffset(ep, offsetMillis) ==
    IF ShouldDelete(ep, offsetMillis)
    THEN << ProgressWrite(ep, offsetMillis), DeleteWrite(ep) >>
    ELSE << ProgressWrite(ep, offsetMillis) >>

\* the remote site after one POST: set_progress stores whole seconds as the
\* episode's start time; delete removes the episode and what was stored for it
ApplyWrite(rem, w) ==
    IF w[1] = "delete"
    THEN [rem EXCEPT ![w[2]] = [present |-> FALSE, start |-> 0]]
    ELSE IF rem[w[2]].present
         THEN [rem EXCEPT ![w[2]].start = w[3] \div 1000]
         ELSE rem

RECURSIVE ApplyWrites(_, _)
ApplyWrites(rem, ws) ==
    IF ws = << >> THEN rem ELSE ApplyWrites(ApplyWrite(rem, Head(ws)), Tail(ws))

----------------------------------------------------------------------------
(* History of the accesses, kept beside the program's state *)

\* the ids of the cached episodes, front first
CacheIds(c) == [i \in 1..Len(c) |-> c[i].id]

\* the record the cache holds under id, << >> when it holds none
Resident(c, id) ==
    IF InCache(c, id) THEN << CacheGet(c, id) >> ELSE << >>

\* the order of last successful access after a call for id that returned ep,
\* among the ids the cache c holds afterwards
Accessed(rec, id, ep, c) ==
    LET others == SelectSeq(rec, LAMBDA x : x # id)
        order  == IF ep # << >> THEN Append(others, id) ELSE others
    IN  SelectSeq(order, LAMBDA x : InCache(c, x))

\* the offsets the remote site holds after the POSTs ws of a report of
\* offsetMillis for id: a delete forgets the episode's, a set_progress for an
\* episode the site still has replaces it
Reported(rep, rem, id, offsetMillis, ws) ==
    IF \E i \in 1..Len(ws) : ws[i][1] = "delete" THEN [rep EXCEPT ![id] = -1]
    ELSE IF ws # << >> /\ rem[id].present THEN [rep EXCEPT ![id] = offsetMillis]
    ELSE rep

----------------------------------------------------------------------------
(* Construction and the request handlers *)

\* no listing page is known and no getMetadata request was made
NoListing ==
    MetadataResponse("", 0, 0, [index |-> 0, count |-> 0, total |-> 0], << >>, << >>)

\* the listing pages while the episode handlers are explored
ExampleSite == [podcasts |-> ExamplePodcasts, episodes |-> ExampleEpisodes]

\* the page of an episode at its start, its cell showing "1 hr left"
ExamplePage ==
    [title |-> "Episode", elapsed |-> 0, cell |-> << [hours |-> 1, minutes |-> -1] >>]

\* the remote site before any progress was reported
RemoteAtStart ==
    [id \in RequestIds |-> [present |-> id \in EpisodeIds, start |-> 0]]

\* the service before a request is taken up, holding the cache c; ok: the
\* login response carried no alert
Constructed(ok, c) ==
    /\ started = ok
    /\ episode_cache = c
    /\ remote = RemoteAtStart
    /\ call = [id |-> 0, offsetMillis |-> -1]
    /\ episode = << >>
    /\ fetched = FALSE
    /\ writes = << >>
    /\ outcome = IF ok THEN "ok" ELSE "error"
    /\ resident = << >>
    /\ recency = CacheIds(c)
    /\ reported = [id \in PlayedIds |-> -1]
    /\ logins = 1

\* no getMetadata request was made
BrowseIdle ==
    /\ site = ExampleSite
    /\ listing = NoListing

\* no duration was computed
DurationIdle ==
    /\ page = ExamplePage
    /\ computed = << >>

\* no connection is open
SerialIdle ==
    /\ pc = [w \in Connections |-> "done"]
    /\ job = [w \in Connections |-> [id |-> 0, offsetMillis |-> -1]]
    /\ local = [w \in Connections |-> << >>]
    /\ accepted = << >>

\* Overcast.__init__: empty cache; a login alert raises and nothing is served
Init ==
    /\ \E ok \in BOOLEAN : Constructed(ok, << >>)
    /\ BrowseIdle
    /\ DurationIdle
    /\ SerialIdle

\* what a request leaves behind apart from its outcome and its remote writes:
\* its arguments, the result r of its get_episode_detail call and the history
Served(id, offsetMillis, r) ==
    /\ call' = [id |-> id, offsetMillis |-> offsetMillis]
    /\ episode_cache' = r.cache
    /\ episode' = r.episode
    /\ fetched' = r.fetched
    /\ resident' = Resident(episode_cache, id)
    /\ recency' = Accessed(recency, id, r.episode, r.cache)
    /\ UNCHANGED <<browseVars, durationVars, serialVars>>

\* mutant of getMediaMetadata: served although the construction raised
getMediaMetadataUnstarted(id) ==
    \E r \in {GetEpisodeDetail(episode_cache, remote, id, -1)} :
        /\ Served(id, -1, r)
        /\ writes' = << >>
        /\ outcome' = "ok"
        /\ UNCHANGED <<started, logins, remote, reported>>

\* getMediaMetadata: returns None for an absent episode
getMediaMetadata(id) ==
    \E r \in {GetEpisodeDetail(episode_cache, remote, id, -1)} :
        /\ started
        /\ Served(id, -1, r)
        /\ writes' = << >>
        /\ outcome' = "ok"
        /\ UNCHANGED <<started, logins, remote, reported>>

\* getMediaURI: subscripts the episode without a None test
getMediaURI(id) ==
    \E r \in {GetEpisodeDetail(episode_cache, remote, id, -1)} :
        /\ started
        /\ Served(id, -1, r)
        /\ writes' = << >>
        /\ outcome' = IF r.episode = << >> THEN "error" ELSE "ok"
        /\ UNCHANGED <<started, logins, remote, reported>>

\* reportPlaySeconds: update_episode_offset subscripts the episode at once
reportPlaySeconds(id, offsetMillis) ==
    \E r \in {GetEpisodeDetail(episode_cache, remote, id, offsetMillis)} :
        /\ started
        /\ Served(id, offsetMillis, r)
        /\ writes' = IF r.episode = << >> THEN << >>
                     ELSE UpdateEpisodeOffset(r.episode[1], offsetMillis)
        /\ remote' = ApplyWrites(remote, writes')
        /\ outcome' = IF r.episode = << >> THEN "error" ELSE "ok"
        /\ reported' = Reported(reported, remote, id, offsetMillis, writes')
        /\ UNCHANGED <<started, logins>>

\* reportPlayStatus: the same body
reportPlayStatus(id, offsetMillis) ==
    \E r \in {GetEpisodeDetail(episode_cache, remote, id, offsetMillis)} :
        /\ started
        /\ Served(id, offsetMillis, r)
        /\ writes' = IF r.episode = << >> THEN << >>
                     ELSE UpdateEpisodeOffset(r.episode[1], offsetMillis)
        /\ remote' = ApplyWrites(remote, writes')
        /\ outcome' = IF r.episode = << >> THEN "error" ELSE "ok"
        /\ reported' = Reported(reported, remote, id, offsetMillis, writes')
        /\ UNCHANGED <<started, logins>>

\* setPlayedSeconds: the same body
setPlayedSeconds(id, offsetMillis) ==
    \E r \in {GetEpisodeDetail(episode_cache, remote, id, offsetMillis)} :
        /\ started
        /\ Served(id, offsetMillis, r)
        /\ writes' = IF r.episode = << >> THEN << >>
                     ELSE UpdateEpisodeOffset(r.episode[1], offsetMillis)
        /\ remote' = ApplyWrites(remote, writes')
        /\ outcome' = IF r.episode = << >> THEN "error" ELSE "ok"
        /\ reported' = Reported(reported, remote, id, offsetMillis, writes')
        /\ UNCHANGED <<started, logins>>

\* HTTPServer.serve_forever: one request at a time
Next ==
    \/ \E id \in RequestIds : getMediaMetadata(id)
    \/ \E id \in RequestIds : getMediaURI(id)
    \/ \E id \in PlayedIds, o \in Offsets : reportPlaySeconds(id, o)
    \/ \E id \in PlayedIds, o \in Offsets : reportPlayStatus(id, o)
    \/ \E id \in PlayedIds, o \in Offsets : setPlayedSeconds(id, o)

Spec == Init /\ [][Next]_vars

----------------------------------------------------------------------------
(* Browsing: getMetadata over every content of the listing pages.  The      *)
(* handler reads the listing pages only; it touches neither the episode     *)
(* cache nor the episodes of the remote site.                               *)

\* the listing pages: every podcasts page beside the example episodes, and
\* every episodes page beside the example podcasts
Sites ==
    {[podcasts |-> p, episodes |-> ExampleEpisodes] : p \in PodcastPages}
        \cup {[podcasts |-> ExamplePodcasts, episodes |-> e] : e \in EpisodePages}

\* the service constructed without a login alert, before any request
BrowseInit ==
    /\ Constructed(TRUE, << >>)
    /\ site \in Sites
    /\ listing = NoListing
    /\ DurationIdle
    /\ SerialIdle

\* getMetadata(id, index, count)
getMetadata(id, index, count) ==
    /\ started
    /\ listing' = GetMetadata(site, id, index, count)
    /\ UNCHANGED <<serviceVars, site, durationVars, serialVars>>

BrowseNext ==
    \E id \in MetadataIds, index \in Indexes, count \in Counts :
        getMetadata(id, index, count)

Browse == BrowseInit /\ [][BrowseNext]_vars

----------------------------------------------------------------------------
(* The duration of a fetched episode: lines 53-67 of get_episode_detail     *)
(* over every title, elapsed time and remaining-time cell.                  *)

\* the episode pages and what the podcast page shows for them
Pages ==
    [ title   : {"Episode", "Scorchin' Radio 101"},
      elapsed : ElapsedSeconds,
      cell    : {NoCell} \cup {<< t >> : t \in CellTexts} ]

\* the service constructed without a login alert, before any request
DurationInit ==
    /\ Constructed(TRUE, << >>)
    /\ BrowseIdle
    /\ page \in Pages
    /\ computed = << >>
    /\ SerialIdle

\* the fetch of get_episode_detail computes the duration of the page
FetchDuration ==
    /\ started
    /\ computed' = << ComputeDuration(page.title, page.elapsed, TimeRemaining(page.cell)) >>
    /\ UNCHANGED <<serviceVars, browseVars, page, serialVars>>

DurationNext == FetchDuration

DurationSpec == DurationInit /\ [][DurationNext]_vars

----------------------------------------------------------------------------
(* The server: two connections carrying a progress report each, the handler *)
(* of a connection taken step by step through get_episode_detail and        *)
(* update_episode_offset.                                                   *)

\* the ascending sequence of the ids in S
RECURSIVE Ascending(_)
Ascending(S) ==
    IF S = {} THEN << >>
    ELSE LET m == CHOOSE x \in S : \A y \in S : x <= y
         IN  << m >> \o Ascending(S \ {m})

\* the caches earlier lookups can have left: the records of up to
\* EPISODE_CACHE_SIZE episodes as their pages showed them
WarmCaches ==
    { [i \in 1..Len(ids) |-> ParseEpisode(ids[i], RemoteAtStart)] :
        ids \in { Ascending(S) : S \in { T \in SUBSET EpisodeIds :
                                            Cardinality(T) <= EPISODE_CACHE_SIZE } } }

\* the progress reports a connection can carry
Reports == [id : PlayedIds, offsetMillis : Offsets]

SerialInit ==
    /\ \E c \in WarmCaches : Constructed(TRUE, c)
    /\ BrowseIdle
    /\ DurationIdle
    /\ pc = [w \in Connections |-> "queued"]
    /\ job \in [Connections -> Reports]
    /\ local = [w \in Connections |-> << >>]
    /\ accepted = << >>

\* mutant of ServerIdle: a request is taken up while another is handled
\* (socketserver.ThreadingMixIn)
ServerIdleThreading == TRUE

\* HTTPServer.serve_forever handles a request to its end before it takes up
\* the next: no handler is running
ServerIdle ==
    \A w \in Connections : pc[w] \in {"queued", "done"}

\* the server takes up the request of connection w
Dispatch(w) ==
    /\ started
    /\ pc[w] = "queued"
    /\ ServerIdle
    /\ pc' = [pc EXCEPT ![w] = "lookup"]
    /\ accepted' = Append(accepted, w)
    /\ UNCHANGED <<serviceVars, browseVars, durationVars, job, local>>

\* lines 34-45: pop the key, test the record, patch the offset
Lookup(w) ==
    /\ pc[w] = "lookup"
    /\ local' = [local EXCEPT ![w] =
                    CacheLookup(episode_cache, job[w].id, job[w].offsetMillis)]
    /\ episode_cache' = CachePop(episode_cache, job[w].id)
    /\ pc' = [pc EXCEPT ![w] = IF local'[w] = << >> THEN "fetch" ELSE "store"]
    /\ UNCHANGED <<started, remote, call, episode, fetched, writes, outcome,
                   resident, recency, reported, logins>>
    /\ UNCHANGED <<browseVars, durationVars, job, accepted>>

\* lines 47-82: fetch the page
Fetch(w) ==
    /\ pc[w] = "fetch"
    /\ local' = [local EXCEPT ![w] = FetchEpisode(job[w].id, remote)]
    /\ pc' = [pc EXCEPT ![w] = "store"]
    /\ UNCHANGED <<serviceVars, browseVars, durationVars, job, accepted>>

\* lines 85-86: store the record, if there is one
Store(w) ==
    /\ pc[w] = "store"
    /\ episode_cache' = IF local[w] = << >> THEN episode_cache
                        ELSE CacheAssign(episode_cache, local[w][1])
    /\ pc' = [pc EXCEPT ![w] = IF local[w] = << >> THEN "update" ELSE "purge"]
    /\ UNCHANGED <<started, remote, call, episode, fetched, writes, outcome,
                   resident, recency, reported, logins>>
    /\ UNCHANGED <<browseVars, durationVars, job, local, accepted>>

\* line 89: the test of the while loop
PurgeTest(w) ==
    /\ pc[w] = "purge"
    /\ pc' = [pc EXCEPT ![w] = IF Len(episode_cache) > EPISODE_CACHE_SIZE
                                THEN "evict" ELSE "update"]
    /\ UNCHANGED <<serviceVars, browseVars, durationVars, job, local, accepted>>

\* line 91: popitem(last=False)
Evict(w) ==
    /\ pc[w] = "evict"
    /\ episode_cache # << >>
    /\ episode_cache' = Tail(episode_cache)
    /\ pc' = [pc EXCEPT ![w] = "purge"]
    /\ UNCHANGED <<started, remote, call, episode, fetched, writes, outcome,
                   resident, recency, reported, logins>>
    /\ UNCHANGED <<browseVars, durationVars, job, local, accepted>>

\* the handler goes on to update_episode_offset, which raises on None
Update(w) ==
    /\ pc[w] = "update"
    /\ remote' = IF local[w] = << >> THEN remote
                 ELSE ApplyWrites(remote,
                        UpdateEpisodeOffset(local[w][1], job[w].offsetMillis))
    /\ pc' = [pc EXCEPT ![w] = "done"]
    /\ UNCHANGED <<started, episode_cache, call, episode, fetched, writes, outcome,
                   resident, recency, reported, logins>>
    /\ UNCHANGED <<browseVars, durationVars, job, local, accepted>>

SerialNext ==
    \E w \in Connections :
        \/ Dispatch(w)
        \/ Lookup(w)
        \/ Fetch(w)
        \/ Store(w)
        \/ PurgeTest(w)
        \/ Evict(w)
        \/ Update(w)

Serial == SerialInit /\ [][SerialNext]_vars

----------------------------------------------------------------------------
(* Properties *)

\* the last request was a progress report (it carried an offset)
IsReport == call.offsetMillis # -1

\* the last request issued the delete POST
DeleteIssued == \E i \in 1..Len(writes) : writes[i][1] = "delete"

\* the last request's progress report reached update_episode_offset
Reconciled == IsReport /\ episode # << >>

\* C1: an episode of unknown duration (-1) is never deleted by a progress
\* report, whatever offset t >= 0 is reported.
C1_UnknownDurationNeverDeleted ==
    (Reconciled /\ call.offsetMillis >= 0 /\ episode[1].duration = -1)
        => ~DeleteIssued

C3_DeletedLeavesCache ==
    (DeleteIssued /\ episode[1].duration # -1) => ~InCache(episode_cache, call.id)

\* C4: every progress report for a found episode issues exactly one
\* set_progress POST, carrying the reported offset, and issues it before any
\* delete POST, whether the duration is known or not.
C4_OneProgressWriteFirst ==
    Reconciled =>
        /\ Len(writes) >= 1
        /\ writes[1] = << "set_progress", episode[1].data_item_id, call.offsetMillis >>
        /\ \A i \in 2..Len(writes) : writes[i][1] # "set_progress"

\* C4 witness: a report for an episode of known duration, answered from the
\* cache, whose progress write was followed by a delete write
C4_Witness ==
    /\ Reconciled
    /\ ~fetched
    /\ episode[1].duration = 1800
    /\ Len(writes) = 2
    /\ writes[1][1] = "set_progress"
    /\ writes[2][1] = "delete"

\* C5: a request for an episode whose page has no audio player ends without
\* an error, with an absent result.
C5_AbsentNeverFails ==
    (fetched /\ episode = << >>) => outcome = "ok"

\* C6: episode_cache never holds more than EPISODE_CACHE_SIZE = 5 entries
\* on return from a request.
C6_CacheBounded ==
    Len(episode_cache) <= 5

\* C6 witness: the cache is full and episode 2, which was cached when its
\* progress was reported and still exists remotely, has been purged from it
C6_Witness ==
    /\ Len(episode_cache) = 5
    /\ remote[2].present
    /\ remote[2].start = 1700
    /\ ~InCache(episode_cache, 2)

\* the last request found the episode cached, with a determined duration
HadKnownDuration == resident # << >> /\ resident[1].duration # -1

\* the last request found the episode cached, with duration unknown
HadUnknownDuration == resident # << >> /\ resident[1].duration = -1

\* C7: the cache is ordered by last successful access; a call that returns an
\* episode leaves it at the most-recently-used end, and an entry other than
\* the requested one leaves the cache only when the insertion makes the size
\* exceed 5, and is then the resident entry accessed longest ago.
C7_RecencyOrdered ==
    [][ LET id     == call'.id
            others == SelectSeq(recency, LAMBDA x : x # id)
        IN  /\ CacheIds(episode_cache') = recency'
            /\ episode' # << >> =>
                    episode_cache'[Len(episode_cache')] = episode'[1]
            /\ \A x \in EpisodeIds \ {id} :
                    (InCache(episode_cache, x) /\ ~InCache(episode_cache', x)) =>
                        /\ episode' # << >>
                        /\ Len(others) = 5
                        /\ x = Head(others)
      ]_vars

\* C7 witness: a miss inserted a new entry into the full cache, and episode
\* 2, cached earlier and still existing remotely, is among the purged
C7_Witness ==
    /\ Len(episode_cache) = 5
    /\ fetched /\ resident = << >> /\ episode # << >>
    /\ episode_cache[5] = episode[1]
    /\ call.id # 2
    /\ remote[2].present /\ remote[2].start = 1700
    /\ ~InCache(episode_cache, 2)

\* C8 as stated: a lookup without an offset of an episode cached with known
\* duration returns the cached record as it is, without fetching the page.
C8_NoOffsetIsHit ==
    (~IsReport /\ HadKnownDuration) =>
        /\ ~fetched
        /\ episode = resident

\* C8 amended: a lookup without an offset of an episode cached with known
\* duration drops the cached record and fetches the page; it returns the
\* record parsed from the page, stored at the most-recently-used end, or
\* absent, with the id out of the cache, when the page has no audio player.
C8_NoOffsetRefetches ==
    (~IsReport /\ HadKnownDuration) =>
        /\ fetched
        /\ episode = FetchEpisode(call.id, remote)
        /\ episode # << >> => episode_cache[Len(episode_cache)] = episode[1]
        /\ episode = << >> => ~InCache(episode_cache, call.id)

\* C8 witness: the cached record had a known duration and the page was fetched
C8_Witness ==
    /\ ~IsReport /\ HadKnownDuration
    /\ fetched
    /\ episode # << >>

\* C9: a call with an offset >= 0 for an episode cached with known duration
\* fetches nothing and returns the cached record with offsetMillis set to the
\* offset, every other field unchanged, stored at the most-recently-used end.
C9_OffsetPatchedFromCache ==
    (IsReport /\ call.offsetMillis >= 0 /\ HadKnownDuration) =>
        /\ ~fetched
        /\ episode = << [resident[1] EXCEPT !.offsetMillis = call.offsetMillis] >>
        /\ episode_cache[Len(episode_cache)] = episode[1]

\* C9 witness: the offset supplied differs from the cached one
C9_Witness ==
    /\ IsReport /\ HadKnownDuration
    /\ resident[1].offsetMillis # call.offsetMillis
    /\ episode[1].offsetMillis = call.offsetMillis

\* C10 as stated: a call with an offset for an episode cached with unknown
\* duration patches the cached record and returns it without fetching.
C10_UnknownDurationPatched ==
    (IsReport /\ HadUnknownDuration) =>
        /\ ~fetched
        /\ episode = << [resident[1] EXCEPT !.offsetMillis = call.offsetMillis] >>

\* C10 amended: a call with an offset for an episode cached with unknown
\* duration drops the cached record and fetches the page; it returns the
\* record parsed from the page as it was when the request arrived (absent
\* when the page has no audio player), not the cached record patched.
C10_UnknownDurationRefetched ==
    [][ (call'.offsetMillis # -1 /\ resident' # << >> /\ resident'[1].duration = -1) =>
            /\ fetched'
            /\ episode' = FetchEpisode(call'.id, remote)
      ]_vars

\* C10 witness: the record cached with unknown duration was fetched again
C10_Witness ==
    /\ IsReport /\ HadUnknownDuration
    /\ fetched
    /\ episode # << >>

\* C11: a cached record of unknown duration is never handed back from the
\* cache: a call for its id, with or without an offset, drops the cached
\* entry and fetches the page, so every record returned without a fetch has a
\* known duration.
C11_UnknownDurationNeverServed ==
    /\ HadUnknownDuration =>
            /\ fetched
            /\ episode = << >> => ~InCache(episode_cache, call.id)
    /\ (~fetched /\ episode # << >>) => episode[1].duration # -1

\* C11 witness: a lookup without an offset found the record cached with
\* unknown duration and fetched the page again
C11_Witness ==
    /\ ~IsReport /\ HadUnknownDuration
    /\ fetched
    /\ episode # << >>
    /\ episode[1].duration = -1

\* C12: a call for an id that is not in the cache fetches the page; when the
\* page has no audio player it returns absent and leaves the cache as it was,
\* otherwise it returns the record parsed from the page and that record is
\* the cache's most-recently-used entry.
C12_MissFetches ==
    [][ resident' = << >> =>
            /\ fetched'
            /\ ~remote[call'.id].present =>
                    /\ episode' = << >>
                    /\ episode_cache' = episode_cache
            /\ remote[call'.id].present =>
                    /\ episode' = << ParseEpisode(call'.id, remote) >>
                    /\ InCache(episode_cache', call'.id)
                    /\ episode_cache'[Len(episode_cache')] = episode'[1]
      ]_vars

\* C12 witness: a miss on a page without audio player left a filled cache
\* untouched and returned absent
C12_Witness ==
    /\ resident = << >>
    /\ fetched
    /\ episode = << >>
    /\ ~remote[call.id].present
    /\ Len(episode_cache) >= 2

\* C13: after a progress report of offset o for an episode that did not
\* delete it, the remote site storing the progress, the next getMediaURI for
\* that episode (a request without an offset; getMediaMetadata makes the
\* same call) succeeds and returns offsetMillis = o to the whole second,
\* whatever the cache holds for it.
C13_LocatorReturnsReportedOffset ==
    (~IsReport /\ call.id \in PlayedIds /\ reported[call.id] # -1) =>
        /\ outcome = "ok"
        /\ fetched
        /\ episode # << >>
        /\ episode[1].offsetMillis = (reported[call.id] \div 1000) * 1000

\* C13 witness: the lookup followed a report of 1700 s for episode 2 and the
\* cache held the record with another offset
C13_Witness ==
    /\ ~IsReport
    /\ call.id = 2
    /\ reported[2] = 1700000
    /\ resident # << >>
    /\ resident[1].offsetMillis # 1700000
    /\ episode # << >>
    /\ episode[1].offsetMillis = 1700000

\* C17: the login is posted once, at construction, and no request posts it
\* again; when the login response carried an alert the construction raised
\* and no request is ever served.
C17_OneLoginAtConstruction ==
    /\ logins = 1
    /\ ~started =>
            /\ outcome = "error"
            /\ call = [id |-> 0, offsetMillis |-> -1]
            /\ episode_cache = << >>
            /\ writes = << >>
            /\ \A id \in EpisodeIds : remote[id] = [present |-> TRUE, start |-> 0]

\* C17 witness: a request read the page and wrote to the remote site in the
\* session of the one login
C17_Witness ==
    /\ started
    /\ logins = 1
    /\ fetched
    /\ Len(writes) = 2

\* C20: once an episode was deleted by a progress report, no later report for
\* the same id issues the delete POST again.
C20_DeleteAtMostOnce ==
    [][ \A i \in 1..Len(writes') :
            writes'[i][1] = "delete" => remote[writes'[i][2]].present
      ]_vars

\* the cached records other than id's, front first
OtherRecords(c, id) == SelectSeq(c, LAMBDA e : e.id # id)

\* C21: whenever get_episode_detail returns absent, the id is not a key of
\* the cache on return; a record found cached whose page, fetched again, has
\* no audio player is dropped, not left behind or reinserted.
C21_AbsentNotCached ==
    episode = << >> => ~InCache(episode_cache, call.id)

\* C21 witness: the record was cached with known duration, the page fetched
\* again had no audio player, and the call returned absent
C21_Witness ==
    /\ resident # << >>
    /\ resident[1].duration # -1
    /\ fetched
    /\ episode = << >>
    /\ ~remote[call.id].present
    /\ episode_cache # << >>

\* C22: a get_episode_detail call for id X leaves the cached records of the
\* other ids as they were and in the same order; the others that leave the
\* cache are those at the least-recently-used end, as many as the insertion
\* of X's record exceeds the size of 5, and none when nothing is inserted.
C22_OtherEntriesUntouched ==
    [][ LET before  == OtherRecords(episode_cache, call'.id)
            after   == OtherRecords(episode_cache', call'.id)
            evicted == IF episode' # << >> /\ Len(before) + 1 > EPISODE_CACHE_SIZE
                       THEN Len(before) + 1 - EPISODE_CACHE_SIZE
                       ELSE 0
        IN  after = SubSeq(before, evicted + 1, Len(before))
      ]_vars

\* C22 witness: a miss for episode 1 filled the cache beyond its size; the
\* record of episode 2, patched by an earlier report, is now the oldest entry
C22_Witness ==
    /\ call.id = 1
    /\ fetched /\ resident = << >> /\ episode # << >>
    /\ Len(episode_cache) = EPISODE_CACHE_SIZE
    /\ episode_cache[1].id = 2
    /\ episode_cache[1].offsetMillis = 1700000
    /\ episode_cache[EPISODE_CACHE_SIZE].id = 1
    /\ Len(recency) = EPISODE_CACHE_SIZE

----------------------------------------------------------------------------
(* Properties of the listings, under Browse *)

\* the positions of the cells of a page that satisfy keep, in page order
CellsWhere(cells, keep(_)) ==
    SelectSeq([i \in 1..Len(cells) |-> i], LAMBDA i : keep(cells[i]))

\* the ids of the items of a listing, in order
ItemIds(items) == [i \in 1..Len(items) |-> items[i].id]

\* a sequence back to front
Reversed(s) == [i \in 1..Len(s) |-> s[Len(s) + 1 - i]]

\* C14: in every getMetadata response the header's count is the number of
\* items returned and does not exceed the requested count, and total is the
\* size of the sequence that was paged (for the root view the two
\* collections and the unplayed podcasts).
C14_HeaderMatchesPage ==
    listing.id # "" =>
        /\ listing.header.count = Len(listing.items)
        /\ listing.header.count <= listing.count
        /\ listing.header.total =
                Len(listing.all) + (IF listing.id = "root" THEN 2 ELSE 0)

C16_PodcastsSortedAndFiltered ==
    listing.id \in {"all_podcasts", "unplayed_podcasts"} =>
        LET all  == listing.all
            want == IF listing.id = "unplayed_podcasts"
                    THEN CellsWhere(site.podcasts, LAMBDA c : c.href /\ c.unplayed)
                    ELSE CellsWhere(site.podcasts, LAMBDA c : c.href)
        IN  /\ \A i \in 1..Len(all) : \A j \in i..Len(all) : all[i].title <= all[j].title
            /\ Len(all) = Len(want)
            /\ {all[i].id : i \in 1..Len(all)} = {want[i] : i \in 1..Len(want)}
            /\ \A i \in 1..Len(all) : all[i].title = site.podcasts[all[i].id].title

\* C16 witness: three podcasts came back in another order than the page's
C16_Witness ==
    /\ listing.id = "all_podcasts"
    /\ Len(listing.all) = 3
    /\ ItemIds(listing.all) = << 3, 1, 2 >>
    /\ listing.all[1].title < listing.all[2].title

----------------------------------------------------------------------------
(* Properties of the duration, under DurationSpec *)

\* C19: with elapsed time e and remaining time r, the duration is e + r when
\* r is known and not zero, unknown when r is exactly 0, and when r could not
\* be determined (no cell, or a text without a quantity) the override of the
\* title (3600 for the known show) or else unknown.
C19_DurationFromRemaining ==
    computed # << >> =>
        LET e == page.elapsed
            r == TimeRemaining(page.cell)
            d == computed[1]
        IN  /\ (r > 0) => d = e + r
            /\ (r = 0) => d = UNKNOWN
            /\ (r \in {NONE_REMAINING, UNKNOWN}) =>
                    d = IF IsOverriddenTitle(page.title) THEN OVERRIDE_DURATION ELSE UNKNOWN

----------------------------------------------------------------------------
(* Properties of the server, under Serial *)

\* connection w is inside its handler
Handling(w) == pc[w] \notin {"queued", "done"}

\* C18: the server handles one request at a time, so no two handlers are
\* inside get_episode_detail together; after two progress reports for the
\* same id the cached record, if there is one, holds the offset of the report
\* taken up last; and an entry is evicted only from a cache that holds more
\* than EPISODE_CACHE_SIZE entries.
C18_RequestsSerialized ==
    /\ \A v, w \in Connections : (Handling(v) /\ Handling(w)) => v = w
    /\ \A w \in Connections : pc[w] = "evict" => Len(episode_cache) > EPISODE_CACHE_SIZE
    /\ ( /\ \A w \in Connections : pc[w] = "done"
         /\ \A v, w \in Connections : job[v].id = job[w].id
         /\ InCache(episode_cache, job[1].id) ) =>
            CacheGet(episode_cache, job[1].id).offsetMillis =
                job[accepted[Len(accepted)]].offsetMillis

\* C18 witness: both reports, for the same id with different offsets, were
\* handled, the second taken up first; the full cache holds the offset of
\* the first
C18_Witness ==
    /\ \A w \in Connections : pc[w] = "done"
    /\ job[1].id = job[2].id
    /\ job[1].offsetMillis # job[2].offsetMillis
    /\ accepted = << 2, 1 >>
    /\ Len(episode_cache) = EPISODE_CACHE_SIZE
    /\ InCache(episode_cache, job[1].id)
    /\ CacheGet(episode_cache, job[1].id).offsetMillis = job[1].offsetMillis

====
